---- MODULE Spec2Model ----
(***************************************************************************)
(* A model of DownloadManager (src/src/core.py): one run of start() on a   *)
(* freshly constructed manager, the fetcher threads it spawns, and the     *)
(* caller (src/src/gui.py, DownloadWorker) setting and clearing the pause  *)
(* and stop events from another thread.                                    *)
(*                                                                         *)
(* Bytes of the remote resource are named by their offsets 0..total_size-1,*)
(* so that the content of a segment store or of the destination file is a  *)
(* sequence of offsets.  Percentages are kept in hundredths of a percent   *)
(* (round(percent, 2) * 100), which keeps them integers.                   *)
(***************************************************************************)
EXTENDS Integers, Sequences, FiniteSets, TLC

\* ---------------------------------------------------------------- bounds
MaxThreads == 2       \* num_threads ranges over 1..MaxThreads
MaxSize == 3          \* Content-Length reported by the probe: 0..MaxSize
BlockLen == 2         \* bytes per block of iter_content (scaled chunk_size)
MaxPauses == 1        \* "paused" reports after which the caller pauses no more
MaxPlanSize == 12     \* total_size for the planner taken alone
MaxPlanThreads == 5   \* num_threads for the planner taken alone

VARIABLES
    file_name,          \* "" or a usable name (url.split("/")[-1])
    num_threads,
    status_callback,    \* TRUE when a status callback is registered
    progress_callback,  \* TRUE when a progress callback is registered
    total_size,
    accept_ranges,
    thread_status,      \* [index -> BOOLEAN], the list of start()
    stop_event,
    pause_event,
    downloaded_total,
    ranges,             \* the local `ranges` of start(): Seq of <<start, end>>
    cpc,                \* where the thread running start() is
    ci,                 \* loop index of start() (spawn) / _combine_chunks
    fpc,                \* where each fetcher thread is
    fbody,              \* the response body each fetcher streams
    fpos,               \* blocks of the body each fetcher has consumed
    fload,              \* value of downloaded_total a fetcher loaded for +=
    partExists,         \* indices i whose <file_name>.part<i> exists on disk
    partData,           \* content of each segment store
    final,              \* the destination file: [exists, data]
    statuses,           \* statuses delivered to the status callback, in order
    last_percent,       \* last value given to the progress callback, -1: none
    created,            \* history: segment stores ever opened by a fetcher
    written,            \* history: bytes written to segment stores, in total
    stop_early          \* history: stop() came while downloading, before any
                        \* fetcher had exited

vars == <<file_name, num_threads, status_callback, progress_callback,
          total_size, accept_ranges, thread_status, stop_event, pause_event,
          downloaded_total, ranges, cpc, ci, fpc, fbody, fpos, fload,
          partExists, partData, final, statuses, last_percent, created,
          written, stop_early>>

config == <<file_name, num_threads, status_callback, progress_callback>>
disk == <<partExists, partData, final, created, written>>
fetch == <<fpc, fbody, fpos, fload>>

AllIdx == 0 .. (MaxThreads - 1)
Idx == 0 .. (num_threads - 1)

Min(a, b) == IF a <= b THEN a ELSE b
Max(a, b) == IF a >= b THEN a ELSE b

\* ------------------------------------------------------------ pure parts

\* self.chunk_size = max(1024, int(chunk_size)), scaled to BlockLen bytes.
chunk_size == BlockLen

\* A planner that gives the last range the length of the others, losing the
\* remainder of the division.
split_ranges_truncating(total, accept, n) ==
    IF ~accept \/ n = 1
    THEN << <<0, total - 1>> >>
    ELSE [k \in 1 .. n |->
            LET start == (k - 1) * (total \div n)
            IN  <<start, start + (total \div n) - 1>>]

\* split_ranges(): the list of (start, end) pairs, as a sequence.
split_ranges(total, accept, n) ==
    IF ~accept \/ n = 1
    THEN << <<0, total - 1>> >>
    ELSE [k \in 1 .. n |->
            LET start == (k - 1) * (total \div n)
            IN  <<start, IF k - 1 < n - 1 THEN start + (total \div n) - 1
                                         ELSE total - 1>>]

\* The bytes lo..hi of the resource, as a sequence of offsets.
Bytes(lo, hi) == [k \in 1 .. Max(0, hi - lo + 1) |-> lo + k - 1]

\* response.iter_content(chunk_size): the number of blocks of a body and
\* the k-th block (1-based).
NumBlocks(body) == (Len(body) + chunk_size - 1) \div chunk_size
Block(body, k) ==
    SubSeq(body, (k - 1) * chunk_size + 1, Min(k * chunk_size, Len(body)))

\* round(x, 2) of num/den * 100, in hundredths: round-half-even of
\* num * 10000 / den.
Round2(num, den) ==
    LET q == (num * 10000) \div den
        r == (num * 10000) % den
    IN  IF 2 * r < den THEN q
        ELSE IF 2 * r > den THEN q + 1
        ELSE IF q % 2 = 0 THEN q ELSE q + 1

\* percent = min(100.0, (downloaded_total / total_size) * 100), rounded.
Percent(downloaded, total) == Min(10000, Round2(downloaded, total))

\* self.status_callback(s) when one is registered.
Deliver(s) == IF status_callback THEN Append(statuses, s) ELSE statuses

\* t.is_alive()
Alive(i) ==
    fpc[i] \in {"request", "next", "pause", "waiting", "write", "store"}
Exited(i) == fpc[i] \in {"done", "failed", "abandoned"}

\* ------------------------------------------------------------------ Init

\* The manager as __init__ leaves it, with the callbacks as its users set
\* them: DownloadWorker registers both (gui.py, lines 31-32), a manager used
\* on its own has neither.
Init ==
    /\ file_name \in {"", "f"}
    /\ num_threads \in 1 .. MaxThreads
    /\ status_callback \in BOOLEAN
    /\ progress_callback = status_callback
    /\ total_size = 0
    /\ accept_ranges = FALSE
    /\ thread_status = [i \in AllIdx |-> FALSE]
    /\ stop_event = FALSE
    /\ pause_event = FALSE
    /\ downloaded_total = 0
    /\ ranges = <<>>
    /\ cpc = "idle"
    /\ ci = 0
    /\ fpc = [i \in AllIdx |-> "unborn"]
    /\ fbody = [i \in AllIdx |-> <<>>]
    /\ fpos = [i \in AllIdx |-> 0]
    /\ fload = [i \in AllIdx |-> 0]
    /\ partExists = {}
    /\ partData = [i \in AllIdx |-> <<>>]
    /\ final = [exists |-> FALSE, data |-> <<>>]
    /\ statuses = <<>>
    /\ last_percent = -1
    /\ created = {}
    /\ written = 0
    /\ stop_early = FALSE

\* ------------------------------------------------- the caller (gui.py)

\* The number of times s is in seq.
Count(seq, s) == Cardinality({k \in 1 .. Len(seq) : seq[k] = s})

\* DownloadWorker.pause(): self.dm.pause_event.set().  The caller stops
\* pausing once MaxPauses pauses have been reported.
Pause ==
    /\ cpc \notin {"idle", "returned", "raised"}
    /\ Count(statuses, "paused") < MaxPauses
    /\ pause_event' = TRUE
    /\ UNCHANGED <<config, total_size, accept_ranges, thread_status,
                   stop_event, downloaded_total, ranges, cpc, ci, fetch, disk,
                   statuses, last_percent, stop_early>>

\* DownloadWorker.resume(): self.dm.pause_event.clear()
Resume ==
    /\ cpc \notin {"idle", "returned", "raised"}
    /\ pause_event' = FALSE
    /\ UNCHANGED <<config, total_size, accept_ranges, thread_status,
                   stop_event, downloaded_total, ranges, cpc, ci, fetch, disk,
                   statuses, last_percent, stop_early>>

\* The monitoring loop of start() is running (status "downloading" given).
Monitoring ==
    cpc \in {"mon_alive", "mon_stop", "mon_pause", "mon_wait", "mon_progress"}

\* DownloadWorker.stop(): self.dm.stop_event.set()
Stop ==
    /\ cpc \notin {"idle", "returned", "raised"}
    /\ stop_event' = TRUE
    /\ stop_early' = (stop_early \/
                        (~stop_event /\ Monitoring /\ \A i \in Idx : Alive(i)))
    /\ UNCHANGED <<config, total_size, accept_ranges, thread_status,
                   pause_event, downloaded_total, ranges, cpc, ci, fetch, disk,
                   statuses, last_percent>>

\* ----------------------------------------------------- start(), by step

\* A handler that re-raises without telling the status callback.
RaiseSilently ==
    /\ UNCHANGED statuses
    /\ cpc' = "raised"

\* The except clause of start(): status_callback("error", str(e)); raise
RaiseError ==
    /\ statuses' = Deliver("error")
    /\ cpc' = "raised"

\* DownloadWorker.run() calls self.dm.start()
Start ==
    /\ cpc = "idle"
    /\ cpc' = "check_name"
    /\ UNCHANGED <<config, total_size, accept_ranges, thread_status,
                   stop_event, pause_event, downloaded_total, ranges, ci,
                   fetch, disk, statuses, last_percent, stop_early>>

\* if not self.file_name ...: raise ValueError (outside the try)
CheckName ==
    /\ cpc = "check_name"
    /\ cpc' = IF file_name = "" THEN "raised" ELSE "prepare"
    /\ UNCHANGED <<config, total_size, accept_ranges, thread_status,
                   stop_event, pause_event, downloaded_total, ranges, ci,
                   fetch, disk, statuses, last_percent, stop_early>>

\* Step 1: clear both events, reset the counter and thread_status, "starting"
Prepare ==
    /\ cpc = "prepare"
    /\ stop_event' = FALSE
    /\ pause_event' = FALSE
    /\ downloaded_total' = 0
    /\ thread_status' = [i \in AllIdx |-> FALSE]
    /\ statuses' = Deliver("starting")
    /\ cpc' = "probe"
    /\ UNCHANGED <<config, total_size, accept_ranges, ranges, ci, fetch, disk,
                   last_percent, stop_early>>

\* self.get_file_info(): raises, or stores the size and the range flag
get_file_info ==
    /\ cpc = "probe"
    /\ \/ /\ RaiseError
          /\ UNCHANGED <<total_size, accept_ranges>>
       \/ /\ total_size' \in 0 .. MaxSize
          /\ accept_ranges' \in BOOLEAN
          /\ cpc' = "plan"
          /\ UNCHANGED statuses
    /\ UNCHANGED <<config, thread_status, stop_event, pause_event,
                   downloaded_total, ranges, ci, fetch, disk, last_percent,
                   stop_early>>

\* A range check that lets a single thread through.
RangesRefusedForMany == ~accept_ranges /\ num_threads > 1

\* if not self.accept_ranges: raise ...
RangesRefused == ~accept_ranges

\* The range check, then Step 2: ranges = self.split_ranges()
Plan ==
    /\ cpc = "plan"
    /\ IF RangesRefused
       THEN RaiseError /\ UNCHANGED <<ranges, ci>>
       ELSE /\ ranges' = split_ranges(total_size, accept_ranges, num_threads)
            /\ ci' = 0
            /\ cpc' = "spawn"
            /\ UNCHANGED statuses
    /\ UNCHANGED <<config, total_size, accept_ranges, thread_status,
                   stop_event, pause_event, downloaded_total, fetch, disk,
                   last_percent, stop_early>>

\* Step 3: one turn of the loop creating and starting thread ci
Spawn ==
    /\ cpc = "spawn"
    /\ ci < Len(ranges)
    /\ fpc' = [fpc EXCEPT ![ci] = "request"]
    /\ ci' = ci + 1
    /\ UNCHANGED <<config, total_size, accept_ranges, thread_status,
                   stop_event, pause_event, downloaded_total, ranges, cpc,
                   fbody, fpos, fload, disk, statuses, last_percent, stop_early>>

\* status_callback("downloading") once every thread is started
Announce ==
    /\ cpc = "spawn"
    /\ ci = Len(ranges)
    /\ statuses' = Deliver("downloading")
    /\ cpc' = "mon_alive"
    /\ UNCHANGED <<config, total_size, accept_ranges, thread_status,
                   stop_event, pause_event, downloaded_total, ranges, ci,
                   fetch, disk, last_percent, stop_early>>

\* while any(t.is_alive() for t in threads)
MonAlive ==
    /\ cpc = "mon_alive"
    /\ cpc' = IF \E i \in 0 .. (Len(ranges) - 1) : Alive(i)
              THEN "mon_stop" ELSE "join"
    /\ UNCHANGED <<config, total_size, accept_ranges, thread_status,
                   stop_event, pause_event, downloaded_total, ranges, ci,
                   fetch, disk, statuses, last_percent, stop_early>>

\* if self.stop_event.is_set(): join with timeout, "stopped", return
MonStop ==
    /\ cpc = "mon_stop"
    /\ IF stop_event
       THEN statuses' = Deliver("stopped") /\ cpc' = "returned"
       ELSE cpc' = "mon_pause" /\ UNCHANGED statuses
    /\ UNCHANGED <<config, total_size, accept_ranges, thread_status,
                   stop_event, pause_event, downloaded_total, ranges, ci,
                   fetch, disk, last_percent, stop_early>>

\* if self.pause_event.is_set(): "paused"
MonPause ==
    /\ cpc = "mon_pause"
    /\ IF pause_event
       THEN statuses' = Deliver("paused") /\ cpc' = "mon_wait"
       ELSE cpc' = "mon_progress" /\ UNCHANGED statuses
    /\ UNCHANGED <<config, total_size, accept_ranges, thread_status,
                   stop_event, pause_event, downloaded_total, ranges, ci,
                   fetch, disk, last_percent, stop_early>>

\* while pause_event.is_set() and not stop_event.is_set(): sleep; "resumed"
MonWait ==
    /\ cpc = "mon_wait"
    /\ ~(pause_event /\ ~stop_event)
    /\ statuses' = Deliver("resumed")
    /\ cpc' = "mon_progress"
    /\ UNCHANGED <<config, total_size, accept_ranges, thread_status,
                   stop_event, pause_event, downloaded_total, ranges, ci,
                   fetch, disk, last_percent, stop_early>>

\* Periodic progress callback, then time.sleep(0.2)
MonProgress ==
    /\ cpc = "mon_progress"
    /\ last_percent' = IF progress_callback /\ total_size > 0
                       THEN Percent(downloaded_total, total_size)
                       ELSE last_percent
    /\ cpc' = "mon_alive"
    /\ UNCHANGED <<config, total_size, accept_ranges, thread_status,
                   stop_event, pause_event, downloaded_total, ranges, ci,
                   fetch, disk, statuses, stop_early>>

\* A wrong test: any(self.thread_status)
AnySucceeded == \E i \in Idx : thread_status[i]

\* all(self.thread_status)
AllSucceeded == \A i \in Idx : thread_status[i]

\* Step 5: join every thread, then require all(self.thread_status)
JoinCheck ==
    /\ cpc = "join"
    /\ \A i \in 0 .. (Len(ranges) - 1) : ~Alive(i)
    /\ IF AllSucceeded
       THEN cpc' = "combine_open" /\ UNCHANGED statuses
       ELSE RaiseError
    /\ UNCHANGED <<config, total_size, accept_ranges, thread_status,
                   stop_event, pause_event, downloaded_total, ranges, ci,
                   fetch, disk, last_percent, stop_early>>

\* _combine_chunks: open(self.file_name, "wb")
CombineOpen ==
    /\ cpc = "combine_open"
    /\ final' = [exists |-> TRUE, data |-> <<>>]
    /\ ci' = 0
    /\ cpc' = "combine_part"
    /\ UNCHANGED <<config, total_size, accept_ranges, thread_status,
                   stop_event, pause_event, downloaded_total, ranges, fetch,
                   partExists, partData, created, written, statuses,
                   last_percent, stop_early>>

\* An assembler that puts each store in front of what it has copied so far.
CopiedInFront(i) == partData[i] \o final.data

\* final_file.write(data) for every block of part i: the destination with
\* the content of part i after what it already holds.
Copied(i) == final.data \o partData[i]

\* An assembler that forgets os.remove.
NotRemoved(i) == partExists

\* os.remove(part_file): the stores left on disk once part i is removed.
Removed(i) == partExists \ {i}

\* _combine_chunks, one turn of the loop: open part ci, copy it, remove it.
\* The open raises when the store is missing or unreadable; the handler of
\* _combine_chunks reports "error" and re-raises into the handler of start().
CombinePart ==
    /\ cpc = "combine_part"
    /\ ci < num_threads
    /\ \/ /\ ci \in partExists
          /\ final' = [final EXCEPT !.data = Copied(ci)]
          /\ partExists' = Removed(ci)
          /\ ci' = ci + 1
          /\ UNCHANGED <<cpc, statuses>>
       \/ /\ statuses' = IF status_callback
                         THEN statuses \o <<"error", "error">>
                         ELSE statuses
          /\ cpc' = "raised"
          /\ UNCHANGED <<final, partExists, ci>>
    /\ UNCHANGED <<config, total_size, accept_ranges, thread_status,
                   stop_event, pause_event, downloaded_total, ranges, fetch,
                   partData, created, written, last_percent, stop_early>>

\* The end of _combine_chunks ("completed") and of start(): "completed"
\* again, or, with no status callback, print(... self.filename ...), an
\* AttributeError that the handler of start() prints and re-raises.
CombineDone ==
    /\ cpc = "combine_part"
    /\ ci = num_threads
    /\ IF status_callback
       THEN /\ statuses' = statuses \o <<"completed", "completed">>
            /\ cpc' = "returned"
       ELSE /\ cpc' = "raised"
            /\ UNCHANGED statuses
    /\ UNCHANGED <<config, total_size, accept_ranges, thread_status,
                   stop_event, pause_event, downloaded_total, ranges, ci,
                   fetch, disk, last_percent, stop_early>>

\* ------------------------------------------- _download_chunk, by step

\* except Exception: self.thread_status[thread_index] = False; raise
FetchFail(i) ==
    /\ thread_status' = [thread_status EXCEPT ![i] = FALSE]
    /\ fpc' = [fpc EXCEPT ![i] = "failed"]

\* The body a server that advertised "Accept-Ranges: bytes" sends for
\* "Range: bytes=<start>-<end>": the range itself (206) when it is a range of
\* the resource; the whole resource (200) when the header names no range of
\* it and is ignored.
Body(range) ==
    IF 0 <= range[1] /\ range[1] <= range[2] /\ range[2] <= total_size - 1
    THEN Bytes(range[1], range[2])
    ELSE Bytes(0, total_size - 1)

\* requests.get(...), the status check and open(chunk_filename, "wb"):
\* an exception or a status other than 200/206 fails the thread before the
\* segment store is opened.
FetchRequest(i) ==
    /\ fpc[i] = "request"
    /\ \/ /\ FetchFail(i)
          /\ UNCHANGED <<fbody, partExists, partData, created>>
       \/ /\ fbody' = [fbody EXCEPT ![i] = Body(ranges[i + 1])]
          /\ partExists' = partExists \cup {i}
          /\ partData' = [partData EXCEPT ![i] = <<>>]
          /\ created' = created \cup {i}
          /\ fpc' = [fpc EXCEPT ![i] = "next"]
          /\ UNCHANGED thread_status
    /\ UNCHANGED <<config, total_size, accept_ranges, stop_event, pause_event,
                   downloaded_total, ranges, cpc, ci, fpos, fload, final,
                   written, statuses, last_percent, stop_early>>

\* What a fetcher does with a block it has just received: the stop check.
AfterBlock(i) == IF stop_event THEN "abandoned" ELSE "pause"

\* for block in response.iter_content(...): the read raises, or the body is
\* exhausted (thread_status[i] = True), or a block arrives and the stop event
\* is checked (return, leaving thread_status[i] as it is).
FetchNext(i) ==
    /\ fpc[i] = "next"
    /\ \/ FetchFail(i)
       \/ /\ fpos[i] = NumBlocks(fbody[i])
          /\ thread_status' = [thread_status EXCEPT ![i] = TRUE]
          /\ fpc' = [fpc EXCEPT ![i] = "done"]
       \/ /\ fpos[i] < NumBlocks(fbody[i])
          /\ fpc' = [fpc EXCEPT ![i] = AfterBlock(i)]
          /\ UNCHANGED thread_status
    /\ UNCHANGED <<config, total_size, accept_ranges, stop_event, pause_event,
                   downloaded_total, ranges, cpc, ci, fbody, fpos, fload, disk,
                   statuses, last_percent, stop_early>>

\* while self.pause_event.is_set(): the first test of the loop.  A fetcher
\* that finds the event set is from then on waiting in the loop.
FetchPause(i) ==
    /\ fpc[i] = "pause"
    /\ fpc' = [fpc EXCEPT ![i] = IF pause_event THEN "waiting" ELSE "write"]
    /\ UNCHANGED <<config, total_size, accept_ranges, thread_status,
                   stop_event, pause_event, downloaded_total, ranges, cpc, ci,
                   fbody, fpos, fload, disk, statuses, last_percent, stop_early>>

\* A fetcher that, once resumed, goes back to read instead of writing the
\* block it holds.
AfterWaitDropping(i) == [fpc EXCEPT ![i] = "next"]

\* What a waiting fetcher does once it finds the pause event clear.
AfterWait(i) == [fpc EXCEPT ![i] = "write"]

\* self.pause_event.wait(0.1) and the next test of the loop: the fetcher
\* stays in the loop while the event is set, whatever the stop event is.
FetchWait(i) ==
    /\ fpc[i] = "waiting"
    /\ ~pause_event
    /\ fpc' = AfterWait(i)
    /\ UNCHANGED <<config, total_size, accept_ranges, thread_status,
                   stop_event, pause_event, downloaded_total, ranges, cpc, ci,
                   fbody, fpos, fload, disk, statuses, last_percent, stop_early>>

\* f.write(block), and the load of self.downloaded_total for the +=
FetchWrite(i) ==
    /\ fpc[i] = "write"
    /\ partData' = [partData EXCEPT
                      ![i] = partData[i] \o Block(fbody[i], fpos[i] + 1)]
    /\ written' = written + Len(Block(fbody[i], fpos[i] + 1))
    /\ fload' = [fload EXCEPT ![i] = downloaded_total]
    /\ fpc' = [fpc EXCEPT ![i] = "store"]
    /\ UNCHANGED <<config, total_size, accept_ranges, thread_status,
                   stop_event, pause_event, downloaded_total, ranges, cpc, ci,
                   fbody, fpos, partExists, final, created, statuses,
                   last_percent, stop_early>>

\* The value self.downloaded_total += len(block) stores: the value loaded
\* before, plus the length (no lock is held between the load and the store).
Added(i) == fload[i] + Len(Block(fbody[i], fpos[i] + 1))

\* The progress_callback parameter of _download_chunk in the threads that
\* start() creates: args=(i, start, end) leaves it at its default, None.
thread_progress_callback == FALSE

\* The store of self.downloaded_total += len(block), then the report
\* "if self.total_size > 0 and progress_callback", which tests the parameter
\* of _download_chunk, not self.progress_callback (the percent is given
\* unrounded there; the hundredths kept here round it).
FetchStore(i) ==
    /\ fpc[i] = "store"
    /\ downloaded_total' = Added(i)
    /\ last_percent' = IF total_size > 0 /\ thread_progress_callback
                       THEN Percent(Added(i), total_size)
                       ELSE last_percent
    /\ fpos' = [fpos EXCEPT ![i] = fpos[i] + 1]
    /\ fpc' = [fpc EXCEPT ![i] = "next"]
    /\ UNCHANGED <<config, total_size, accept_ranges, thread_status,
                   stop_event, pause_event, ranges, cpc, ci, fbody, fload,
                   disk, statuses, stop_early>>

Fetcher(i) ==
    \/ FetchRequest(i)
    \/ FetchNext(i)
    \/ FetchPause(i)
    \/ FetchWait(i)
    \/ FetchWrite(i)
    \/ FetchStore(i)

Coordinator ==
    \/ Start
    \/ CheckName
    \/ Prepare
    \/ get_file_info
    \/ Plan
    \/ Spawn
    \/ Announce
    \/ MonAlive
    \/ MonStop
    \/ MonPause
    \/ MonWait
    \/ MonProgress
    \/ JoinCheck
    \/ CombineOpen
    \/ CombinePart
    \/ CombineDone

Caller == Pause \/ Resume \/ Stop

Next ==
    \/ Coordinator
    \/ Caller
    \/ \E i \in AllIdx : Fetcher(i)

Spec == Init /\ [][Next]_vars

\* Every thread that can take a step eventually takes one; the caller is
\* under no obligation to press anything.
FairSpec ==
    /\ Spec
    /\ WF_vars(Coordinator)
    /\ \A i \in AllIdx : WF_vars(Fetcher(i))

\* ------------------------------------------------ the planner, alone

\* split_ranges() applied to every size, thread count and range flag within
\* the bounds, whatever start() would have done with them.
PlanInit ==
    /\ file_name = "f"
    /\ num_threads \in 1 .. MaxPlanThreads
    /\ status_callback = FALSE
    /\ progress_callback = FALSE
    /\ total_size \in 0 .. MaxPlanSize
    /\ accept_ranges \in BOOLEAN
    /\ thread_status = [i \in AllIdx |-> FALSE]
    /\ stop_event = FALSE
    /\ pause_event = FALSE
    /\ downloaded_total = 0
    /\ ranges = <<>>
    /\ cpc = "planner"
    /\ ci = 0
    /\ fpc = [i \in AllIdx |-> "unborn"]
    /\ fbody = [i \in AllIdx |-> <<>>]
    /\ fpos = [i \in AllIdx |-> 0]
    /\ fload = [i \in AllIdx |-> 0]
    /\ partExists = {}
    /\ partData = [i \in AllIdx |-> <<>>]
    /\ final = [exists |-> FALSE, data |-> <<>>]
    /\ statuses = <<>>
    /\ last_percent = -1
    /\ created = {}
    /\ written = 0
    /\ stop_early = FALSE

PlanOnly ==
    /\ cpc = "planner"
    /\ ranges' = split_ranges(total_size, accept_ranges, num_threads)
    /\ cpc' = "planned"
    /\ UNCHANGED <<config, total_size, accept_ranges, thread_status,
                   stop_event, pause_event, downloaded_total, ci, fetch, disk,
                   statuses, last_percent, stop_early>>

PlanSpec == PlanInit /\ [][PlanOnly]_vars

\* ------------------------------------------------------------ the claims

Last(seq) == seq[Len(seq)]
Ended == cpc \in {"returned", "raised"}
Assembling == cpc \in {"combine_open", "combine_part"}
ByteSet(range) == range[1] .. range[2]
Failed(i) == fpc[i] = "failed"
Succeeded(i) == fpc[i] = "done"

\* C1: when stop() comes while the run is downloading and before any fetcher
\* has exited, and no fetcher fails, the run ends stopped: start() returns, the last status
\* delivered is "stopped", and the destination file is never opened.
C1_StopEndsStopped ==
    (stop_early /\ Ended /\ \A i \in Idx : ~Failed(i)) =>
        /\ cpc = "returned"
        /\ status_callback => Last(statuses) = "stopped"
        /\ ~final.exists

\* C2: assembly is entered only when every fetcher has exited with success;
\* while a fetcher has failed or was abandoned, assembly has not run and no
\* segment store that was opened is gone.
C2_AssemblyOnlyAfterAllSucceed ==
    /\ (Assembling \/ final.exists) =>
            \A i \in Idx : Succeeded(i) /\ thread_status[i]
    /\ (\E i \in Idx : fpc[i] \in {"failed", "abandoned"}) =>
            ~Assembling /\ ~final.exists /\ partExists = created

C2_AssemblyEntered ==
    /\ cpc = "combine_part"
    /\ num_threads = 2
    /\ ci = 1
    /\ partExists = {1}

\* The case of C3: the run has ended, no stop is set, exactly one fetcher
\* failed and every other one succeeded.
OneFailed ==
    /\ Ended
    /\ ~stop_event
    /\ Cardinality({i \in Idx : Failed(i)}) = 1
    /\ \A i \in Idx : Failed(i) \/ Succeeded(i)

C4_NoLostIncrement ==
    (cpc \notin {"idle", "check_name", "prepare", "probe", "plan", "spawn"}
        /\ \A i \in Idx : Exited(i))
    => downloaded_total = written

\* C5: while no fetcher has failed or been abandoned and no stop is set, the
\* percent given to the progress callback never goes down, and no percent
\* is ever above 100.
C5_PercentMonotone ==
    /\ [][(~stop_event /\ \A i \in Idx : fpc[i] \notin {"failed", "abandoned"})
            => last_percent' >= last_percent]_vars
    /\ [](last_percent <= 10000)

\* C6: for total_size > 0 the planned ranges start at 0, each starts right
\* after the one before it ends, the last ends at total_size - 1, no two
\* share a byte and together they are the bytes 0 .. total_size - 1.
C6_PlanCoversResource ==
    (cpc = "planned" /\ total_size > 0) =>
        /\ Len(ranges) >= 1
        /\ ranges[1][1] = 0
        /\ \A k \in 2 .. Len(ranges) : ranges[k][1] = ranges[k - 1][2] + 1
        /\ ranges[Len(ranges)][2] = total_size - 1
        /\ \A j, k \in 1 .. Len(ranges) :
                j # k => ByteSet(ranges[j]) \cap ByteSet(ranges[k]) = {}
        /\ UNION {ByteSet(ranges[k]) : k \in 1 .. Len(ranges)}
                = 0 .. (total_size - 1)

C6_PlannedWithRemainder ==
    /\ cpc = "planned"
    /\ accept_ranges
    /\ num_threads = 3
    /\ total_size = 8
    /\ Len(ranges) = 3

\* C7: once the probe has reported no range support, start() ends in error
\* whatever num_threads is, no fetcher is started and no segment store is
\* opened.
C7_NoRangeSupportFails ==
    (file_name # "" /\ ~accept_ranges
        /\ cpc \notin {"idle", "check_name", "prepare", "probe"})
    => /\ cpc \in {"plan", "raised"}
       /\ (cpc = "raised" /\ status_callback) => Last(statuses) = "error"
       /\ \A i \in AllIdx : fpc[i] = "unborn"
       /\ created = {} /\ partExists = {}

C7_RefusedWithOneThread ==
    /\ cpc = "raised"
    /\ ~accept_ranges
    /\ total_size > 0
    /\ num_threads = 1
    /\ status_callback

\* C8: whenever start() ends by raising and a status callback is
\* registered, the last status delivered is "error".
C8_ErrorsReachCallback ==
    (cpc = "raised" /\ status_callback) =>
        statuses # <<>> /\ Last(statuses) = "error"

\* C9: once the stop event is set during the run, a fetcher at the top of
\* its loop writes no further block, and every fetcher still alive
\* eventually exits.
C9_StopEndsFetchers ==
    /\ [][\A i \in AllIdx :
            (stop_event /\ fpc[i] = "next") => fpc'[i] # "pause"]_vars
    /\ \A i \in AllIdx :
            (stop_event /\ cpc \notin {"idle", "check_name", "prepare"}
                /\ Alive(i)) ~> Exited(i)

\* The bytes of the first n blocks of a body.
Consumed(body, n) == SubSeq(body, 1, Min(n * chunk_size, Len(body)))

\* C10: a fetcher waiting in its pause loop when the pause event is clear
\* goes on to write its pending block unless the event is set again, and a
\* segment store always holds exactly the blocks its fetcher has taken from
\* its one response, in order.
C10_PauseIsReversible ==
    /\ [](\A i \in created \cap partExists :
            partData[i] = Consumed(fbody[i],
                            fpos[i] + (IF fpc[i] = "store" THEN 1 ELSE 0)))
    /\ \A i \in AllIdx :
            (fpc[i] = "waiting" /\ ~pause_event)
                ~> (fpc[i] = "store" \/ pause_event)

C10_ResumedWhileWaiting ==
    \E i \in Idx :
        /\ fpc[i] = "waiting"
        /\ ~pause_event /\ ~stop_event
        /\ fpos[i] = 1

\* The run ended with status "completed".
Completed ==
    status_callback /\ cpc = "returned" /\ Last(statuses) = "completed"

\* C11: when a run ends completed, no segment store is left on disk and the
\* destination file exists.
C11_CompletedLeavesNoStore ==
    Completed => final.exists /\ partExists = {}

C11_CompletedWithTwoStores ==
    /\ Completed
    /\ num_threads = 2
    /\ created = {0, 1}
    /\ total_size = 3

\* What the segment stores 0 .. n-1 held, one after the other.
RECURSIVE ConcatStores(_)
ConcatStores(n) ==
    IF n = 0 THEN <<>> ELSE ConcatStores(n - 1) \o partData[n - 1]

\* Every fetcher was sent exactly the bytes of the range it asked for.
EachGotItsRange ==
    \A i \in Idx : fbody[i] = Bytes(ranges[i + 1][1], ranges[i + 1][2])

\* C12: when a run ends completed the destination file holds what stores
\* 0, 1, ..., N-1 held, in that order; and when every fetcher was sent
\* exactly its range it holds the bytes 0 .. total_size-1, total_size in all.
C12_DestinationIsConcatenation ==
    Completed =>
        /\ final.data = ConcatStores(num_threads)
        /\ EachGotItsRange =>
                /\ Len(final.data) = total_size
                /\ final.data = Bytes(0, total_size - 1)

C12_AssembledThreeBytes ==
    /\ Completed
    /\ num_threads = 2
    /\ EachGotItsRange
    /\ partData[0] = <<0>> /\ partData[1] = <<1, 2>>
    /\ final.data = <<0, 1, 2>>

\* The run ended in error after assembly had begun: a store could not be
\* opened.
AssemblyFailed == cpc = "raised" /\ final.exists /\ ci < num_threads

\* C13: when a run ends failed, because a fetcher failed or because
\* assembly failed, every segment store that was opened is still on disk.
C13_FailureKeepsStores ==
    (cpc = "raised" /\ ((\E i \in Idx : Failed(i)) \/ AssemblyFailed))
        => partExists = created

\* C14: for a size of 0 the planner returns no range, and a run whose probe
\* reported size 0 starts no fetcher.
C14_NoRangeForSizeZero ==
    (total_size = 0
        /\ cpc \notin {"idle", "check_name", "prepare", "probe", "plan"})
    => /\ ranges = <<>>
       /\ \A i \in AllIdx : fpc[i] = "unborn"

\* The "paused" and "resumed" among the statuses delivered, in order.
PauseReports ==
    SelectSeq(statuses, LAMBDA x : x \in {"paused", "resumed"})

\* C15: "paused" and "resumed" alternate, "paused" first; "paused" is
\* delivered on finding the pause event set, "resumed" on finding it clear.
C15_PauseReportsFollowSignal ==
    /\ [](\A k \in 1 .. Len(PauseReports) :
            PauseReports[k] = (IF k % 2 = 1 THEN "paused" ELSE "resumed"))
    /\ [][(Count(statuses', "paused") > Count(statuses, "paused"))
            => pause_event]_vars
    /\ [][(Count(statuses', "resumed") > Count(statuses, "resumed"))
            => ~pause_event]_vars

\* C16: each time a fetcher has written a block, with a progress callback
\* registered and the size known, the counter goes up by the length of the
\* block and the callback is given the percent of the new count.
C16_BlockReportsProgress ==
    [][\A i \in AllIdx :
        (fpc[i] = "store" /\ fpc'[i] = "next"
            /\ progress_callback /\ total_size > 0)
        => /\ downloaded_total'
                = downloaded_total + Len(Block(fbody[i], fpos[i] + 1))
           /\ last_percent' = Percent(downloaded_total', total_size)]_vars

\* C17: with range support and total_size > 0, every planned range is
\* non-empty and lies within the resource.
C17_RangesNonEmpty ==
    (cpc = "planned" /\ accept_ranges /\ total_size > 0) =>
        \A k \in 1 .. Len(ranges) :
            /\ 0 <= ranges[k][1]
            /\ ranges[k][1] <= ranges[k][2]
            /\ ranges[k][2] <= total_size - 1

Terminal == {"completed", "stopped", "error"}

\* C18: at most one terminal status is delivered, and it is the last
\* status delivered.
C18_OneTerminalStatus ==
    \A k \in 1 .. Len(statuses) :
        statuses[k] \in Terminal => k = Len(statuses)

\* C19: once start() has been invoked, a stop event that is set stays set.
C19_StopIsNeverCleared ==
    [][(cpc # "idle" /\ stop_event) => stop_event']_vars

\* C20: a run in which every fetcher succeeded and every store was
\* assembled ends with start() returning, with or without a status callback.
C20_SuccessReturns ==
    (Ended /\ final.exists /\ ci = num_threads
        /\ \A i \in Idx : Succeeded(i))
    => cpc = "returned"

====
